---- MODULE Spec2Model ----
(***************************************************************************)
(* CMSServer/mixins.py: the permission and queryset mixins of the blog     *)
(* CMS.  The database (blogs, posts) is the state; every mixin hook is an  *)
(* operator computing the outcome of one call (the exception raised, the   *)
(* calls made to collaborators, the new database content, the value        *)
(* returned) and an action that applies it.                                *)
(***************************************************************************)
EXTENDS Integers, Sequences, FiniteSets, TLC

VARIABLES
    blogs,      \* Blog table: id -> [user, title, description]
    posts,      \* Post table: id -> [blog, body]
    nextBlogId, \* next primary key of the Blog table
    nextPostId, \* next primary key of the Post table
    last        \* the last hook call: its inputs and its outcome

vars == <<blogs, posts, nextBlogId, nextPostId, last>>

\* ---------------------------------------------------------------- bounds
MaxBlogs == 2
MaxPosts == 2

\* ---------------------------------------------------------------- users
Users == {"alice", "bob", "root"}
Superusers == {"root"}
AnonymousUser == "AnonymousUser"
Requesters == Users \cup {AnonymousUser}

None == "None"
NoError == "no error"

is_superuser(user) == user \in Superusers
is_authenticated(user) == user \in Users

\* ------------------------------------------------------- inputs of the hooks
BlogData == {"Renamed"}
PostData == {"draft", "final"}
ActionNames ==
    {"list", "retrieve", "create", "update", "partial_update", "destroy", "metadata", "None"}
ParentReadonly == {<<>>, <<"created_at">>, <<"blog">>, <<"blog", "created_at">>}
Usernames == Users \cup {"mallory"}
Passwords == {"secret", "wrong", ""}
BlogIdTexts == {"1", "2", "3", "4"}
QueryParams ==
    {<<>>} \cup {[blog_id |-> t] : t \in BlogIdTexts} \cup {[blog |-> t] : t \in BlogIdTexts}

\* ------------------------------------------------------------ the outcome
\* What one call did: the exception it raised (NoError when it returned), the
\* calls it made to its collaborators in order, the tables afterwards and the
\* value it returned.
Outcome(error, calls, newBlogs, newPosts, ret) ==
    [error |-> error, calls |-> calls, blogs |-> newBlogs, posts |-> newPosts, ret |-> ret]

Raise(error, calls) == Outcome(error, calls, blogs, posts, None)

Count(calls, name) == Cardinality({i \in 1..Len(calls) : calls[i][1] = name})

\* ------------------------------------------------------------- the ORM
\* Blog.user is the owner of a blog.
BlogOwner(b) == blogs[b].user

\* hasattr(request.user, "blog"): the reverse accessor of Blog.user, present
\* exactly when a Blog row refers to the user.
hasattr_blog(user) == \E b \in DOMAIN blogs : blogs[b].user = user

\* request.user.blog: the Blog row that refers to the user.
user_blog(user) == CHOOSE b \in DOMAIN blogs : blogs[b].user = user

\* Blog.objects.create(title=..., description=..., user=...): a new row under
\* the next primary key.
Blog_objects_create(title, description, user) ==
    [b \in DOMAIN blogs \cup {nextBlogId} |->
        IF b = nextBlogId
        THEN [user |-> user, title |-> title, description |-> description]
        ELSE blogs[b]]

\* serializer.save(blog=blog) of the Post serializer on create: a new Post row.
Post_serializer_create(blog, data) ==
    [p \in DOMAIN posts \cup {nextPostId} |->
        IF p = nextPostId THEN [blog |-> blog, body |-> data] ELSE posts[p]]

\* serializer.save() of the Post serializer on update: the row takes the data.
Post_serializer_update(p, data) == [posts EXCEPT ![p].body = data]

\* serializer.save() of the Blog serializer on update: the row takes the data.
Blog_serializer_update(b, data) == [blogs EXCEPT ![b].title = data]

\* instance.delete() of a Post.
Post_delete(p) == [q \in DOMAIN posts \ {p} |-> posts[q]]

\* instance.delete() of a Blog: the row goes, and its posts with it.
Blog_delete_blogs(b) == [c \in DOMAIN blogs \ {b} |-> blogs[c]]
Blog_delete_posts(b) == [q \in {p \in DOMAIN posts : posts[p].blog # b} |-> posts[q]]

\* qs.filter(blog__user=user) and qs.none()
filter_blog__user(qs, user) == {p \in qs : blogs[posts[p].blog].user = user}
none(qs) == {}

\* ------------------------------------------- PostReadonlyFieldsMixin
\* obj is <<>> for None and <<p>> for the post p.
Contains(seq, x) == \E i \in 1..Len(seq) : seq[i] = x

\* Variant of get_readonly_fields without the is_superuser test.
get_readonly_fields_NoSuperuserTest(user, obj, parent) ==
    IF obj # <<>> /\ ~Contains(parent, "blog")
    THEN Outcome(NoError, <<>>, blogs, posts, Append(parent, "blog"))
    ELSE Outcome(NoError, <<>>, blogs, posts, parent)

PostReadonlyFieldsMixin_get_readonly_fields(user, obj, parent) ==
    IF ~is_superuser(user) /\ obj # <<>> /\ ~Contains(parent, "blog")
    THEN Outcome(NoError, <<>>, blogs, posts, Append(parent, "blog"))
    ELSE Outcome(NoError, <<>>, blogs, posts, parent)

\* ------------------------------------------------ PublicReadOnlyMixin
PublicReadOnlyMixin_get_permissions(action) ==
    IF action = "list" \/ action = "retrieve"
    THEN Outcome(NoError, <<>>, blogs, posts, <<"AllowAny">>)
    ELSE Outcome(NoError, <<>>, blogs, posts, <<"IsAuthenticated">>)

\* ------------------------------------------- BlogOwnerPermissionMixin
\* Variant of get_permissions that opens "list" alone.
get_permissions_ListOnly(action) ==
    IF action = "list"
    THEN Outcome(NoError, <<>>, blogs, posts, <<"AllowAny">>)
    ELSE Outcome(NoError, <<>>, blogs, posts, <<"IsAuthenticated">>)

BlogOwnerPermissionMixin_get_permissions(action) ==
    IF action = "list" \/ action = "retrieve"
    THEN Outcome(NoError, <<>>, blogs, posts, <<"AllowAny">>)
    ELSE Outcome(NoError, <<>>, blogs, posts, <<"IsAuthenticated">>)

\* Variant of perform_update that saves before it tests the owner.
perform_update_SaveBeforeTest(user, blog, data) ==
    IF BlogOwner(blog) # user /\ ~is_superuser(user)
    THEN Outcome("rest_framework.PermissionDenied", <<<<"serializer.save">>>>,
                 Blog_serializer_update(blog, data), posts, None)
    ELSE Outcome(NoError, <<<<"serializer.save">>>>,
                 Blog_serializer_update(blog, data), posts, None)

BlogOwnerPermissionMixin_perform_update(user, blog, data) ==
    IF BlogOwner(blog) # user /\ ~is_superuser(user)
    THEN Raise("rest_framework.PermissionDenied", <<>>)
    ELSE Outcome(NoError, <<<<"serializer.save">>>>,
                 Blog_serializer_update(blog, data), posts, None)

BlogOwnerPermissionMixin_perform_destroy(user, instance) ==
    IF BlogOwner(instance) # user /\ ~is_superuser(user)
    THEN Raise("rest_framework.PermissionDenied", <<>>)
    ELSE Outcome(NoError, <<<<"instance.delete">>>>,
                 Blog_delete_blogs(instance), Blog_delete_posts(instance), None)

\* ---------------------------------------- PostOwnerQuerysetAdminMixin
\* Variant of the admin get_queryset without qs.none() and the owner filter.
Admin_get_queryset_NoAnonymousTest(user, qs) ==
    IF ~is_authenticated(user)
    THEN Outcome(NoError, <<>>, blogs, posts, qs)
    ELSE Outcome(NoError, <<>>, blogs, posts, qs)

PostOwnerQuerysetAdminMixin_get_queryset(user, qs) ==
    IF ~is_authenticated(user)
    THEN Outcome(NoError, <<>>, blogs, posts, none(qs))
    ELSE IF ~is_superuser(user)
    THEN Outcome(NoError, <<>>, blogs, posts, filter_blog__user(qs, user))
    ELSE Outcome(NoError, <<>>, blogs, posts, qs)

\* -------------------------------------- PostOwnerQuerysetViewSetMixin
\* Variant of the viewset get_queryset without the owner filter.
ViewSet_get_queryset_NoOwnerFilter(user, qs) ==
    Outcome(NoError, <<>>, blogs, posts, qs)

PostOwnerQuerysetViewSetMixin_get_queryset(user, qs) ==
    IF ~is_authenticated(user)
    THEN Outcome(NoError, <<>>, blogs, posts, qs)
    ELSE IF ~is_superuser(user)
    THEN Outcome(NoError, <<>>, blogs, posts, filter_blog__user(qs, user))
    ELSE Outcome(NoError, <<>>, blogs, posts, qs)

\* ---------------------------------------------------- PostEditorMixin
\* can_edit is what the imported can_edit_post(user, post) answers.

\* Variant of perform_create whose title is not formatted with the username.
perform_create_WrongTitle(user, data) ==
    IF ~is_authenticated(user)
    THEN Raise("AuthenticationError", <<>>)
    ELSE IF ~hasattr_blog(user)
    THEN Outcome(NoError,
                 <<<<"Blog.objects.create">>, <<"serializer.save">>>>,
                 Blog_objects_create("Blog de username", "Blog personal", user),
                 Post_serializer_create(nextBlogId, data), None)
    ELSE Outcome(NoError, <<<<"serializer.save">>>>,
                 blogs, Post_serializer_create(user_blog(user), data), None)

\* Variant of perform_create without the hasattr test: a Blog on every create.
perform_create_NoBlogTest(user, data) ==
    IF ~is_authenticated(user)
    THEN Raise("AuthenticationError", <<>>)
    ELSE Outcome(NoError,
                 <<<<"Blog.objects.create">>, <<"serializer.save">>>>,
                 Blog_objects_create("Blog de " \o user, "Blog personal", user),
                 Post_serializer_create(nextBlogId, data), None)

PostEditorMixin_perform_create(user, data) ==
    IF ~is_authenticated(user)
    THEN Raise("AuthenticationError", <<>>)
    ELSE IF ~hasattr_blog(user)
    THEN Outcome(NoError,
                 <<<<"Blog.objects.create">>, <<"serializer.save">>>>,
                 Blog_objects_create("Blog de " \o user, "Blog personal", user),
                 Post_serializer_create(nextBlogId, data), None)
    ELSE Outcome(NoError, <<<<"serializer.save">>>>,
                 blogs, Post_serializer_create(user_blog(user), data), None)

\* Variant of perform_update that does not ask can_edit_post's answer.
perform_update_AnswerIgnored(user, post, data, can_edit) ==
    IF ~is_authenticated(user)
    THEN Raise("AuthenticationError", <<>>)
    ELSE Outcome(NoError, <<<<"can_edit_post", user, post>>, <<"serializer.save">>>>,
                 blogs, Post_serializer_update(post, data), None)

PostEditorMixin_perform_update(user, post, data, can_edit) ==
    IF ~is_authenticated(user)
    THEN Raise("AuthenticationError", <<>>)
    ELSE IF ~can_edit
    THEN Raise("django.PermissionDenied", <<<<"can_edit_post", user, post>>>>)
    ELSE Outcome(NoError, <<<<"can_edit_post", user, post>>, <<"serializer.save">>>>,
                 blogs, Post_serializer_update(post, data), None)

\* Variant of perform_destroy without the is_authenticated test.
perform_destroy_NoAuthenticationTest(user, instance, can_edit) ==
    IF ~can_edit
    THEN Raise("django.PermissionDenied", <<<<"can_edit_post", user, instance>>>>)
    ELSE Outcome(NoError, <<<<"can_edit_post", user, instance>>, <<"instance.delete">>>>,
                 blogs, Post_delete(instance), None)

PostEditorMixin_perform_destroy(user, instance, can_edit) ==
    IF ~is_authenticated(user)
    THEN Raise("AuthenticationError", <<>>)
    ELSE IF ~can_edit
    THEN Raise("django.PermissionDenied", <<<<"can_edit_post", user, instance>>>>)
    ELSE Outcome(NoError, <<<<"can_edit_post", user, instance>>, <<"instance.delete">>>>,
                 blogs, Post_delete(instance), None)

\* ------------------------------------------------ AuthenticationMixin
\* found is what the imported authenticate_user(username, password) returns:
\* a user, or None.

\* Variant of authenticate_user that returns None instead of raising.
authenticate_user_NoneReturned(username, password, found) ==
    Outcome(NoError, <<<<"authenticate_user", username, password>>>>, blogs, posts, found)

AuthenticationMixin_authenticate_user(username, password, found) ==
    IF found = None
    THEN Raise("InvalidCredentialsError", <<<<"authenticate_user", username, password>>>>)
    ELSE Outcome(NoError, <<<<"authenticate_user", username, password>>>>, blogs, posts, found)

\* -------------------------------------- FilterPostsByBlogViewSetMixin
\* request.query_params is a mapping from parameter names to strings;
\* query_params.get(key) is the value under key, None when there is none.
query_params_get(query_params, key) ==
    IF key \in DOMAIN query_params THEN query_params[key] ELSE None

\* A primary key as the text a query string carries it in.
Decimal == <<"1", "2", "3", "4", "5", "6", "7", "8", "9">>
str(id) == Decimal[id]

\* The imported filter_posts_by_blog(qs, blog_id): the posts of qs on the blog
\* whose id reads blog_id, and qs itself when blog_id is None.
filter_posts_by_blog(qs, blog_id) ==
    IF blog_id = None
    THEN qs
    ELSE {p \in qs : str(posts[p].blog) = blog_id}

\* Variant of get_queryset that reads the parameter "blog" instead of "blog_id".
Filter_get_queryset_WrongParameter(query_params, qs) ==
    Outcome(NoError, <<>>, blogs, posts,
            filter_posts_by_blog(qs, query_params_get(query_params, "blog")))

FilterPostsByBlogViewSetMixin_get_queryset(query_params, qs) ==
    Outcome(NoError, <<>>, blogs, posts,
            filter_posts_by_blog(qs, query_params_get(query_params, "blog_id")))

\* ------------------------------------------- PostEditorMixin.save_model
\* obj is the Post of the admin form, [id, blog, body]; form is the admin form,
\* a record that has a changed_data field or has none; can_add and can_edit
\* are what the imported can_add_post(user, obj.blog) and
\* can_edit_post(user, obj.blog) answer (for an edit can_add_post, which the
\* code has no reason to ask, is given the opposite answer of can_edit_post).

\* getattr(form, "changed_data", [])
getattr_changed_data(form) ==
    IF "changed_data" \in DOMAIN form THEN form.changed_data ELSE <<>>

\* super().save_model(request, obj, form, change): the row of obj is written.
super_save_model(obj) ==
    [p \in DOMAIN posts \cup {obj.id} |->
        IF p = obj.id THEN [blog |-> obj.blog, body |-> obj.body] ELSE posts[p]]

Saved(calls, obj) ==
    Outcome(NoError, Append(calls, <<"super().save_model">>), blogs, super_save_model(obj), None)

\* Variant of save_model that tests additions alone: an edit is saved as it is.
save_model_EditNotTested(user, obj, form, change, can_add, can_edit) ==
    IF is_superuser(user)
    THEN Saved(<<>>, obj)
    ELSE IF ~change
    THEN IF ~can_add
         THEN Raise("django.PermissionDenied", <<<<"can_add_post", user, obj.blog>>>>)
         ELSE Saved(<<<<"can_add_post", user, obj.blog>>>>, obj)
    ELSE Saved(<<>>, obj)

PostEditorMixin_save_model(user, obj, form, change, can_add, can_edit) ==
    IF is_superuser(user)
    THEN Saved(<<>>, obj)
    ELSE IF ~change
    THEN IF ~can_add
         THEN Raise("django.PermissionDenied", <<<<"can_add_post", user, obj.blog>>>>)
         ELSE Saved(<<<<"can_add_post", user, obj.blog>>>>, obj)
    ELSE IF Contains(getattr_changed_data(form), "blog")
    THEN IF ~can_edit
         THEN Raise("django.PermissionDenied", <<<<"can_edit_post", user, obj.blog>>>>)
         ELSE Saved(<<<<"can_edit_post", user, obj.blog>>>>, obj)
    ELSE Saved(<<>>, obj)

\* ------------------------------------------------------------ the calls
\* One hook call: its name and inputs, and the outcome applied to the tables.
Call(op, user, obj, data, oracle, out) ==
    [op |-> op, user |-> user, obj |-> obj, data |-> data, oracle |-> oracle,
     error |-> out.error, calls |-> out.calls, ret |-> out.ret]

Apply(op, user, obj, data, oracle, out) ==
    /\ last' = Call(op, user, obj, data, oracle, out)
    /\ blogs' = out.blogs
    /\ posts' = out.posts
    /\ nextBlogId' = IF nextBlogId \in DOMAIN out.blogs THEN nextBlogId + 1 ELSE nextBlogId
    /\ nextPostId' = IF nextPostId \in DOMAIN out.posts THEN nextPostId + 1 ELSE nextPostId

Init ==
    /\ blogs = <<>>
    /\ posts = <<>>
    /\ nextBlogId = 1
    /\ nextPostId = 1
    /\ last = [op |-> "init", user |-> None, obj |-> <<>>, data |-> None,
               oracle |-> FALSE, error |-> NoError, calls |-> <<>>, ret |-> None]

GetReadonlyFields ==
    \E user \in Requesters, obj \in {<<>>} \cup {<<p>> : p \in DOMAIN posts},
       parent \in ParentReadonly :
        Apply("PostReadonlyFieldsMixin.get_readonly_fields", user, obj, parent, FALSE,
              PostReadonlyFieldsMixin_get_readonly_fields(user, obj, parent))

PublicGetPermissions ==
    \E action \in ActionNames :
        Apply("PublicReadOnlyMixin.get_permissions", None, <<>>, action, FALSE,
              PublicReadOnlyMixin_get_permissions(action))

BlogGetPermissions ==
    \E action \in ActionNames :
        Apply("BlogOwnerPermissionMixin.get_permissions", None, <<>>, action, FALSE,
              BlogOwnerPermissionMixin_get_permissions(action))

BlogPerformUpdate ==
    \E user \in Requesters, blog \in DOMAIN blogs, data \in BlogData :
        Apply("BlogOwnerPermissionMixin.perform_update", user, <<blog>>, data, FALSE,
              BlogOwnerPermissionMixin_perform_update(user, blog, data))

BlogPerformDestroy ==
    \E user \in Requesters, instance \in DOMAIN blogs :
        Apply("BlogOwnerPermissionMixin.perform_destroy", user, <<instance>>, None, FALSE,
              BlogOwnerPermissionMixin_perform_destroy(user, instance))

AdminGetQueryset ==
    \E user \in Requesters, qs \in SUBSET DOMAIN posts :
        Apply("PostOwnerQuerysetAdminMixin.get_queryset", user, <<>>, qs, FALSE,
              PostOwnerQuerysetAdminMixin_get_queryset(user, qs))

ViewSetGetQueryset ==
    \E user \in Requesters, qs \in SUBSET DOMAIN posts :
        Apply("PostOwnerQuerysetViewSetMixin.get_queryset", user, <<>>, qs, FALSE,
              PostOwnerQuerysetViewSetMixin_get_queryset(user, qs))

PostPerformCreate ==
    \E user \in Requesters, data \in PostData :
        /\ nextPostId <= MaxPosts
        /\ (is_authenticated(user) /\ ~hasattr_blog(user)) => nextBlogId <= MaxBlogs
        /\ Apply("PostEditorMixin.perform_create", user, <<>>, data, FALSE,
                 PostEditorMixin_perform_create(user, data))

PostPerformUpdate ==
    \E user \in Requesters, post \in DOMAIN posts, data \in PostData, can_edit \in BOOLEAN :
        Apply("PostEditorMixin.perform_update", user, <<post>>, data, can_edit,
              PostEditorMixin_perform_update(user, post, data, can_edit))

PostPerformDestroy ==
    \E user \in Requesters, instance \in DOMAIN posts, can_edit \in BOOLEAN :
        Apply("PostEditorMixin.perform_destroy", user, <<instance>>, None, can_edit,
              PostEditorMixin_perform_destroy(user, instance, can_edit))

AuthenticateUser ==
    \E username \in Usernames, password \in Passwords, found \in Users \cup {None} :
        Apply("AuthenticationMixin.authenticate_user", username, <<>>, password, found,
              AuthenticationMixin_authenticate_user(username, password, found))

\* The calls that write the tables.
Next ==
    \/ BlogPerformUpdate
    \/ BlogPerformDestroy
    \/ PostPerformCreate
    \/ PostPerformUpdate
    \/ PostPerformDestroy

Spec == Init /\ [][Next]_vars

\* The hooks that are functions of their arguments alone, called over the
\* tables of the tests' setUp: two users, a blog each, a post on each blog.
InitHooks ==
    /\ blogs = (1 :> [user |-> "alice", title |-> "Blog de alice", description |-> "Blog personal"]
              @@ 2 :> [user |-> "bob", title |-> "Blog de bob", description |-> "Blog personal"])
    /\ posts = (1 :> [blog |-> 1, body |-> "draft"] @@ 2 :> [blog |-> 2, body |-> "draft"])
    /\ nextBlogId = Cardinality(DOMAIN blogs) + 1
    /\ nextPostId = Cardinality(DOMAIN posts) + 1
    /\ last = [op |-> "init", user |-> None, obj |-> <<>>, data |-> None,
               oracle |-> FALSE, error |-> NoError, calls |-> <<>>, ret |-> None]

NextHooks ==
    \/ GetReadonlyFields
    \/ PublicGetPermissions
    \/ BlogGetPermissions
    \/ AuthenticateUser

SpecHooks == InitHooks /\ [][NextHooks]_vars

\* The queryset hooks, which read the tables and leave them alone, called over
\* every content of the tables within the bounds: each user owns at most one
\* blog and each post is on a blog of the table.
BlogTables ==
    {t \in UNION {[ids -> Users] : ids \in SUBSET (1..MaxBlogs)} :
        \A a, b \in DOMAIN t : t[a] = t[b] => a = b}

PostTables(blogIds) == UNION {[ids -> blogIds] : ids \in SUBSET (1..MaxPosts)}

InitQueries ==
    /\ \E t \in BlogTables :
          /\ blogs = [b \in DOMAIN t |-> [user |-> t[b], title |-> "Blog de " \o t[b],
                                          description |-> "Blog personal"]]
          /\ \E pt \in PostTables(DOMAIN t) :
                posts = [p \in DOMAIN pt |-> [blog |-> pt[p], body |-> "draft"]]
    /\ nextBlogId = MaxBlogs + 1
    /\ nextPostId = MaxPosts + 1
    /\ last = [op |-> "init", user |-> None, obj |-> <<>>, data |-> None,
               oracle |-> FALSE, error |-> NoError, calls |-> <<>>, ret |-> None]

FilterGetQueryset ==
    \E query_params \in QueryParams, qs \in SUBSET DOMAIN posts :
        Apply("FilterPostsByBlogViewSetMixin.get_queryset", None, query_params, qs, FALSE,
              FilterPostsByBlogViewSetMixin_get_queryset(query_params, qs))

NextQueries ==
    \/ AdminGetQueryset
    \/ ViewSetGetQueryset
    \/ FilterGetQueryset

SpecQueries == InitQueries /\ [][NextQueries]_vars

\* The admin's save_model, called over every content of the tables within the
\* bounds, for a new post (change is false) and for an existing post whose
\* form may have moved it to another blog.
\* The changed_data of a form that edits a post: the title, and the blog when
\* the post was moved.
AdminForms(moved) ==
    {[changed_data |-> IF moved THEN <<"title", "blog">> ELSE <<"title">>],
     [cleaned_data |-> <<>>]}

InitAdmin ==
    /\ \E t \in BlogTables :
          /\ blogs = [b \in DOMAIN t |-> [user |-> t[b], title |-> "Blog de " \o t[b],
                                          description |-> "Blog personal"]]
          /\ \E pt \in PostTables(DOMAIN t) :
                /\ posts = [p \in DOMAIN pt |-> [blog |-> pt[p], body |-> "draft"]]
                /\ nextPostId = Cardinality({i \in 1..MaxPosts : \E p \in DOMAIN pt : i <= p}) + 1
    /\ nextBlogId = MaxBlogs + 1
    /\ last = [op |-> "init", user |-> None, obj |-> <<>>, data |-> None,
               oracle |-> FALSE, error |-> NoError, calls |-> <<>>, ret |-> None]

AdminAddPost ==
    \E user \in Users, blog \in DOMAIN blogs, can_add \in BOOLEAN, can_edit \in BOOLEAN :
        LET obj == [id |-> nextPostId, blog |-> blog, body |-> "draft"]
            form == [changed_data |-> <<"title", "blog">>]
        IN  /\ nextPostId <= MaxPosts
            /\ Apply("PostEditorMixin.save_model", user, obj,
                     [form |-> form, change |-> FALSE],
                     [can_add_post |-> can_add, can_edit_post |-> can_edit],
                     PostEditorMixin_save_model(user, obj, form, FALSE, can_add, can_edit))

AdminChangePost ==
    \E user \in Users, post \in DOMAIN posts, blog \in DOMAIN blogs, can_edit \in BOOLEAN :
        \E form \in AdminForms(blog # posts[post].blog) :
            LET obj == [id |-> post, blog |-> blog, body |-> posts[post].body]
                can_add == ~can_edit
            IN  Apply("PostEditorMixin.save_model", user, obj,
                      [form |-> form, change |-> TRUE],
                      [can_add_post |-> can_add, can_edit_post |-> can_edit],
                      PostEditorMixin_save_model(user, obj, form, TRUE, can_add, can_edit))

NextAdmin ==
    \/ AdminAddPost
    \/ AdminChangePost

SpecAdmin == InitAdmin /\ [][NextAdmin]_vars

\* ==================================================================
\* The claims.  last describes the call just made; in an action formula
\* last' is the call of the step and the unprimed tables are the ones
\* it found.
\* ==================================================================
Saves(call) == Count(call.calls, "serializer.save")
Deletes(call) == Count(call.calls, "instance.delete")
BlogCreates(call) == Count(call.calls, "Blog.objects.create")
BlogWrites == {"BlogOwnerPermissionMixin.perform_update", "BlogOwnerPermissionMixin.perform_destroy"}
PostWrites == {"PostEditorMixin.perform_update", "PostEditorMixin.perform_destroy"}
PostEditorCalls == PostWrites \cup {"PostEditorMixin.perform_create"}
QuerysetCalls == {"PostOwnerQuerysetAdminMixin.get_queryset", "PostOwnerQuerysetViewSetMixin.get_queryset"}
PermissionCalls == {"PublicReadOnlyMixin.get_permissions", "BlogOwnerPermissionMixin.get_permissions"}
BlogsOf(user) == {b \in DOMAIN blogs : blogs[b].user = user}

\* C1: an update or destroy of a Blog by a user who is neither its owner nor a
\* superuser raises permission denied, calls neither save nor delete and leaves
\* the tables as they were; by the owner or a superuser it raises nothing and
\* saves (the row takes the data, its owner kept) or deletes (the row is gone)
\* exactly once.
C1_BlogWriteOnlyByOwnerOrSuperuser ==
    [][last'.op \in BlogWrites =>
        LET user == last'.user
            b == last'.obj[1]
        IN  IF blogs[b].user # user /\ user \notin Superusers
            THEN /\ last'.error = "rest_framework.PermissionDenied"
                 /\ Saves(last') = 0 /\ Deletes(last') = 0
                 /\ blogs' = blogs /\ posts' = posts
            ELSE /\ last'.error = NoError
                 /\ IF last'.op = "BlogOwnerPermissionMixin.perform_update"
                    THEN /\ Saves(last') = 1 /\ Deletes(last') = 0
                         /\ DOMAIN blogs' = DOMAIN blogs
                         /\ blogs'[b].title = last'.data
                         /\ blogs'[b].user = blogs[b].user
                         /\ \A c \in DOMAIN blogs \ {b} : blogs'[c] = blogs[c]
                    ELSE /\ Saves(last') = 0 /\ Deletes(last') = 1
                         /\ DOMAIN blogs' = DOMAIN blogs \ {b}
    ]_vars

\* C1 witness: a destroy of a blog by an authenticated user who is neither its
\* owner nor a superuser was denied, and the blog is still there.
C1_Witness ==
    /\ last.op = "BlogOwnerPermissionMixin.perform_destroy"
    /\ last.user \in Users \ Superusers
    /\ last.obj[1] \in DOMAIN blogs
    /\ blogs[last.obj[1]].user # last.user
    /\ last.error = "rest_framework.PermissionDenied"

\* C2: for an authenticated requester both get_queryset hooks return, to a
\* non-superuser, exactly the posts of the base queryset whose blog he owns, and
\* to a superuser the whole base queryset.
C2_QuerysetScopedToOwner ==
    (last.op \in QuerysetCalls /\ last.user \in Users) =>
        /\ last.error = NoError
        /\ last.ret \subseteq last.data
        /\ last.user \in Superusers => last.ret = last.data
        /\ last.user \notin Superusers =>
             \A p \in last.data : p \in last.ret <=> blogs[posts[p].blog].user = last.user

\* C2 witness: a non-superuser asked the viewset hook for a base queryset that
\* holds a post of his own blog and a post of somebody else's, and got some
\* but not all of it.
C2_Witness ==
    /\ last.op = "PostOwnerQuerysetViewSetMixin.get_queryset"
    /\ last.user \in Users \ Superusers
    /\ \E p, q \in last.data :
         /\ blogs[posts[p].blog].user = last.user
         /\ blogs[posts[q].blog].user # last.user
         /\ p \in last.ret
         /\ q \notin last.ret

\* C3: perform_create by an authenticated user who owns no Blog creates exactly
\* one Blog, owned by him, titled "Blog de <username>" and described "Blog
\* personal", and saves the post exactly once, on that new Blog.
TitleOf ==
    ("alice" :> "Blog de alice") @@ ("bob" :> "Blog de bob") @@ ("root" :> "Blog de root")

C3_FirstPostCreatesTheBlog ==
    [][(/\ last'.op = "PostEditorMixin.perform_create"
        /\ last'.user \in Users
        /\ BlogsOf(last'.user) = {}) =>
        LET user == last'.user
            newBlogs == DOMAIN blogs' \ DOMAIN blogs
            newPosts == DOMAIN posts' \ DOMAIN posts
        IN  /\ last'.error = NoError
            /\ BlogCreates(last') = 1
            /\ Saves(last') = 1
            /\ Cardinality(newBlogs) = 1
            /\ \A b \in newBlogs :
                 blogs'[b] = [user |-> user, title |-> TitleOf[user],
                              description |-> "Blog personal"]
            /\ \A b \in DOMAIN blogs : b \in DOMAIN blogs' /\ blogs'[b] = blogs[b]
            /\ Cardinality(newPosts) = 1
            /\ \A p \in newPosts : posts'[p].blog \in newBlogs
            /\ \A p \in DOMAIN posts : p \in DOMAIN posts' /\ posts'[p] = posts[p]
    ]_vars

\* C3 witness: a create that made a Blog, while another user's blog was already
\* in the table.
C3_Witness ==
    /\ last.op = "PostEditorMixin.perform_create"
    /\ last.error = NoError
    /\ BlogCreates(last) = 1
    /\ \E b \in DOMAIN blogs : blogs[b].user # last.user
    /\ Cardinality(BlogsOf(last.user)) = 1

\* C4: perform_create keeps "every user owns at most one Blog"; a Blog is
\* created exactly when the creator owned none, a creator who owned one gets
\* the post on that Blog and the Blog table is left alone, and the new post is
\* always on a Blog its creator owns.
AtMostOneBlog == \A user \in Users : Cardinality(BlogsOf(user)) <= 1

C4_AtMostOneBlogPerUser ==
    [][last'.op = "PostEditorMixin.perform_create" =>
        /\ AtMostOneBlog => AtMostOneBlog'
        /\ last'.error = NoError =>
            LET user == last'.user
                owned == BlogsOf(user)
                newPosts == DOMAIN posts' \ DOMAIN posts
            IN  /\ BlogCreates(last') = (IF owned = {} THEN 1 ELSE 0)
                /\ Cardinality(DOMAIN blogs') = Cardinality(DOMAIN blogs) + BlogCreates(last')
                /\ owned # {} => blogs' = blogs
                /\ Cardinality(newPosts) = 1
                /\ \A p \in newPosts :
                     /\ blogs'[posts'[p].blog].user = user
                     /\ owned # {} => posts'[p].blog \in owned
    ]_vars

\* C4 witness: a user who already had a Blog with a post on it created another
\* post, and no Blog was created.
C4_Witness ==
    /\ last.op = "PostEditorMixin.perform_create"
    /\ last.error = NoError
    /\ BlogCreates(last) = 0
    /\ Cardinality({p \in DOMAIN posts : blogs[posts[p].blog].user = last.user}) >= 2
    /\ AtMostOneBlog

\* C5: perform_create, perform_update and perform_destroy of PostEditorMixin,
\* called for an unauthenticated requester, raise AuthenticationError whatever
\* can_edit_post would answer, call nothing (no Blog.objects.create, no save,
\* no delete, no can_edit_post) and leave the tables as they were.
C5_UnauthenticatedRejected ==
    [][(last'.op \in PostEditorCalls /\ last'.user \notin Users) =>
        /\ last'.error = "AuthenticationError"
        /\ last'.calls = <<>>
        /\ blogs' = blogs
        /\ posts' = posts
    ]_vars

\* C5 witness: an anonymous destroy for which can_edit_post would have said
\* yes was rejected, and the post is still there.
C5_Witness ==
    /\ last.op = "PostEditorMixin.perform_destroy"
    /\ last.user = AnonymousUser
    /\ last.oracle = TRUE
    /\ last.error = "AuthenticationError"
    /\ last.obj[1] \in DOMAIN posts

\* C6: for an authenticated requester perform_update and perform_destroy of
\* PostEditorMixin ask can_edit_post(user, post) once; on yes the post is saved
\* (it takes the data) or deleted exactly once and nothing is raised, on no
\* PermissionDenied is raised and nothing is saved, deleted or changed.
C6_PostWriteDelegatedToCanEditPost ==
    [][(last'.op \in PostWrites /\ last'.user \in Users) =>
        LET p == last'.obj[1]
        IN  /\ Count(last'.calls, "can_edit_post") = 1
            /\ last'.calls[1] = <<"can_edit_post", last'.user, p>>
            /\ blogs' = blogs
            /\ IF last'.oracle
               THEN /\ last'.error = NoError
                    /\ IF last'.op = "PostEditorMixin.perform_update"
                       THEN /\ Saves(last') = 1 /\ Deletes(last') = 0
                            /\ DOMAIN posts' = DOMAIN posts
                            /\ posts'[p] = [blog |-> posts[p].blog, body |-> last'.data]
                            /\ \A q \in DOMAIN posts \ {p} : posts'[q] = posts[q]
                       ELSE /\ Saves(last') = 0 /\ Deletes(last') = 1
                            /\ DOMAIN posts' = DOMAIN posts \ {p}
                            /\ \A q \in DOMAIN posts' : posts'[q] = posts[q]
               ELSE /\ last'.error = "django.PermissionDenied"
                    /\ Saves(last') = 0 /\ Deletes(last') = 0
                    /\ posts' = posts
    ]_vars

\* C6 witness: the owner of a post's blog asked to update it, can_edit_post
\* said no, and the update was denied.
C6_Witness ==
    /\ last.op = "PostEditorMixin.perform_update"
    /\ last.user \in Users
    /\ last.oracle = FALSE
    /\ last.obj[1] \in DOMAIN posts
    /\ blogs[posts[last.obj[1]].blog].user = last.user
    /\ last.error = "django.PermissionDenied"

\* C7 as stated: get_readonly_fields has "blog" in its list for a
\* non-superuser editing an existing Post, and has no "blog" in it for a
\* superuser or for a new object.
C7_Original ==
    last.op = "PostReadonlyFieldsMixin.get_readonly_fields" =>
        /\ (last.user \notin Superusers /\ last.obj # <<>>) => Contains(last.ret, "blog")
        /\ (last.user \in Superusers \/ last.obj = <<>>) => ~Contains(last.ret, "blog")

\* C7 as amended: get_readonly_fields has "blog" in its list for a
\* non-superuser editing an existing Post (the parent's list, with "blog"
\* appended when it was not in it); for a superuser or a new object it returns
\* the parent's list as it is, so "blog" is absent exactly when the parent's
\* list does not hold it.
C7_ReadonlyBlogField ==
    last.op = "PostReadonlyFieldsMixin.get_readonly_fields" =>
        /\ last.error = NoError
        /\ (last.user \notin Superusers /\ last.obj # <<>>) =>
             /\ Contains(last.ret, "blog")
             /\ last.ret = IF Contains(last.data, "blog") THEN last.data
                           ELSE last.data \o <<"blog">>
        /\ (last.user \in Superusers \/ last.obj = <<>>) =>
             /\ last.ret = last.data
             /\ Contains(last.ret, "blog") <=> Contains(last.data, "blog")

\* C7 witness: a superuser edits an existing post under a parent list without
\* "blog", and the list comes back without it.
C7_Witness ==
    /\ last.op = "PostReadonlyFieldsMixin.get_readonly_fields"
    /\ last.user \in Superusers
    /\ last.obj # <<>>
    /\ last.data = <<"created_at">>
    /\ ~Contains(last.ret, "blog")

\* C8: get_permissions of PublicReadOnlyMixin and of BlogOwnerPermissionMixin
\* returns one permission for every action name: AllowAny for "list" and
\* "retrieve", IsAuthenticated for every other.
C8_PermissionsByAction ==
    last.op \in PermissionCalls =>
        /\ last.error = NoError
        /\ Len(last.ret) = 1
        /\ last.data \in {"list", "retrieve"} => last.ret[1] = "AllowAny"
        /\ last.data \notin {"list", "retrieve"} => last.ret[1] = "IsAuthenticated"

\* C8 witness: BlogOwnerPermissionMixin answered AllowAny for "retrieve".
C8_Witness ==
    /\ last.op = "BlogOwnerPermissionMixin.get_permissions"
    /\ last.data = "retrieve"
    /\ last.ret = <<"AllowAny">>

\* C9: for an unauthenticated requester the admin get_queryset returns no post
\* and the viewset get_queryset returns the whole base queryset.
C9_AnonymousQueryset ==
    (last.op \in QuerysetCalls /\ last.user \notin Users) =>
        /\ last.error = NoError
        /\ last.op = "PostOwnerQuerysetAdminMixin.get_queryset" => last.ret = {}
        /\ last.op = "PostOwnerQuerysetViewSetMixin.get_queryset" => last.ret = last.data

\* C9 witness: the viewset hook gave an anonymous requester posts of the blogs
\* of two different users.
C9_Witness ==
    /\ last.op = "PostOwnerQuerysetViewSetMixin.get_queryset"
    /\ last.user = AnonymousUser
    /\ \E p, q \in last.ret : blogs[posts[p].blog].user # blogs[posts[q].blog].user

\* C10: AuthenticationMixin.authenticate_user calls the imported
\* authenticate_user once, with its own username and password; it returns the
\* user that call found, and raises InvalidCredentialsError, returning
\* nothing, when that call found none.
C10_AuthenticateUser ==
    last.op = "AuthenticationMixin.authenticate_user" =>
        /\ last.calls = <<<<"authenticate_user", last.user, last.data>>>>
        /\ last.oracle \in Users => (last.error = NoError /\ last.ret = last.oracle)
        /\ last.oracle \notin Users =>
             (last.error = "InvalidCredentialsError" /\ last.ret = None)

\* C10 witness: the imported authenticate_user found no user for a username
\* that exists, and InvalidCredentialsError was raised.
C10_Witness ==
    /\ last.op = "AuthenticationMixin.authenticate_user"
    /\ last.user \in Users
    /\ last.oracle = None
    /\ last.error = "InvalidCredentialsError"

\* C11: FilterPostsByBlogViewSetMixin.get_queryset returns, when the request
\* carries a blog_id parameter, exactly the posts of the base queryset whose
\* blog has that id, and, when it carries none, the whole base queryset.
C11_FilterByBlogId ==
    last.op = "FilterPostsByBlogViewSetMixin.get_queryset" =>
        /\ last.error = NoError
        /\ last.ret \subseteq last.data
        /\ "blog_id" \in DOMAIN last.obj =>
             \A p \in last.data :
                p \in last.ret <=>
                    \E b \in 1..Len(Decimal) :
                        Decimal[b] = last.obj.blog_id /\ posts[p].blog = b
        /\ "blog_id" \notin DOMAIN last.obj => last.ret = last.data

\* C11 witness: the request named a blog by blog_id, the base queryset held a
\* post of that blog and a post of another, and only the first came back.
C11_Witness ==
    /\ last.op = "FilterPostsByBlogViewSetMixin.get_queryset"
    /\ "blog_id" \in DOMAIN last.obj
    /\ \E p, q \in last.data :
         /\ posts[p].blog # posts[q].blog
         /\ last.ret = {p}
         /\ Decimal[posts[p].blog] = last.obj.blog_id

\* C12: save_model, for a non-superuser, asks can_add_post(user, obj.blog)
\* when it adds a post and can_edit_post(user, obj.blog) when it edits one
\* whose "blog" is among the form's changed fields, and on a no raises
\* PermissionDenied without the parent's save (the table is as it was); on a
\* yes, and for an edit that does not change "blog", the parent's save is made
\* once, the latter with no predicate asked; a superuser's save is always
\* passed to the parent with no predicate asked.
ParentSaves(call) == Count(call.calls, "super().save_model")
Asked(call) == {call.calls[i] : i \in 1..Len(call.calls)} \ {<<"super().save_model">>}

C12_SaveModelGuardsTheBlog ==
    [][last'.op = "PostEditorMixin.save_model" =>
        LET user == last'.user
            obj == last'.obj
            change == last'.data.change
            form == last'.data.form
            blogChanged == /\ "changed_data" \in DOMAIN form
                           /\ \E i \in 1..Len(form.changed_data) : form.changed_data[i] = "blog"
            asked == IF user \in Superusers THEN {}
                     ELSE IF ~change THEN {<<"can_add_post", user, obj.blog>>}
                     ELSE IF blogChanged THEN {<<"can_edit_post", user, obj.blog>>}
                     ELSE {}
            denied == /\ user \notin Superusers
                      /\ \/ ~change /\ ~last'.oracle.can_add_post
                         \/ change /\ blogChanged /\ ~last'.oracle.can_edit_post
        IN  /\ Asked(last') = asked
            /\ blogs' = blogs
            /\ IF denied
               THEN /\ last'.error = "django.PermissionDenied"
                    /\ ParentSaves(last') = 0
                    /\ posts' = posts
               ELSE /\ last'.error = NoError
                    /\ ParentSaves(last') = 1
                    /\ DOMAIN posts' = DOMAIN posts \cup {obj.id}
                    /\ posts'[obj.id].blog = obj.blog
                    /\ \A q \in DOMAIN posts \ {obj.id} : posts'[q] = posts[q]
    ]_vars

\* C12 witness: a non-superuser's edit moved a post of his own blog to another
\* user's blog, can_edit_post said no, the save was denied and the post is
\* still on his blog.
C12_Witness ==
    /\ last.op = "PostEditorMixin.save_model"
    /\ last.user \in Users \ Superusers
    /\ last.data.change
    /\ last.data.form = [changed_data |-> <<"title", "blog">>]
    /\ ~last.oracle.can_edit_post
    /\ last.error = "django.PermissionDenied"
    /\ last.obj.id \in DOMAIN posts
    /\ blogs[posts[last.obj.id].blog].user = last.user
    /\ blogs[last.obj.blog].user # last.user

====
